---- MODULE Spec2Model ----
(***************************************************************************)
(* The Textarea editor of textcomplete (src/src/textarea.js): an adapter   *)
(* between one textarea element and the autocomplete engine.               *)
(*                                                                         *)
(* The element is the record el (value, selection, focus, listener list).  *)
(* Strings are sequences of characters.  Every operation of the adapter is *)
(* one action; the record last keeps what the latest call did: its         *)
(* arguments, the effects it performed in order (trace), its result, and   *)
(* whether it raised.                                                      *)
(***************************************************************************)
EXTENDS Integers, Sequences, FiniteSets, TLC

\* Longest string drawn for the element's initial value.
MaxLen == 2

\* Longest string drawn for each of the two parts of a replacement.
MaxPart == 1

Chars == {"a", "b"}

RECURSIVE StrsOfLen(_)
StrsOfLen(n) ==
  IF n = 0 THEN {<<>>}
  ELSE {Append(w, c) : w \in StrsOfLen(n - 1), c \in Chars}

StrsUpTo(n) == UNION {StrsOfLen(k) : k \in 0..n}

Min(a, b) == IF a < b THEN a ELSE b
Max(a, b) == IF a < b THEN b ELSE a

VARIABLES
  el,           \* the textarea element (owned by the page)
  constructed,  \* an adapter instance exists
  hasEl,        \* the instance's property el is present (this.el)
  isIE9,        \* the instance's property isIE9
  ieVersion,    \* what getIEVersion() answers in this browser (0: not IE)
  last          \* the latest call or native event, and what it did

vars == <<el, constructed, hasEl, isIE9, ieVersion, last>>

CALLBACK_METHODS == <<"onInput", "onKeydown", "onKeyup">>

\* The decoded key codes (Editor.getCode's range).
Codes == {"BS", "UP", "DOWN", "ENTER", "ESC", "OTHER"}

-----------------------------------------------------------------------------
(* The element's own behaviour, as far as the adapter uses it.             *)

\* String.prototype.substring(start, end): both indices are clamped to
\* [0, length] and swapped when start > end; end = -1 stands for "omitted".
substring(str, start, end) ==
  LET n  == Len(str)
      a  == Max(0, Min(start, n))
      b  == IF end = -1 THEN n ELSE Max(0, Min(end, n))
      lo == Min(a, b)
      hi == Max(a, b)
  IN [i \in 1..(hi - lo) |-> str[lo + i]]

\* el.value = v: a changed value moves the caret to the end of the text.
setValue(e, v) ==
  IF v = e.value THEN e
  ELSE [e EXCEPT !.value = v, !.selectionStart = Len(v), !.selectionEnd = Len(v)]

\* el.selectionEnd = n: the range (selectionStart, n), clamped to the text,
\* the start pulled back to the end when it lies beyond it.
setSelectionEnd(e, n) ==
  LET end   == Min(n, Len(e.value))
      start == Min(Min(e.selectionStart, Len(e.value)), end)
  IN [e EXCEPT !.selectionStart = start, !.selectionEnd = end]

\* el.selectionStart = n: the range (n, max(selectionEnd, n)), clamped.
setSelectionStart(e, n) ==
  LET end0  == Max(e.selectionEnd, n)
      end   == Min(end0, Len(e.value))
      start == Min(Min(n, Len(e.value)), end)
  IN [e EXCEPT !.selectionStart = start, !.selectionEnd = end]

focus(e) == [e EXCEPT !.focused = TRUE]

Listener(type, handler) == [type |-> type, handler |-> handler]

\* addEventListener ignores a listener that is already in the list.
addEventListener(ls, type, handler) ==
  IF \E i \in 1..Len(ls) : ls[i] = Listener(type, handler)
  THEN ls
  ELSE Append(ls, Listener(type, handler))

removeEventListener(ls, type, handler) ==
  SelectSeq(ls, LAMBDA l : l # Listener(type, handler))

-----------------------------------------------------------------------------
(* Editor, the base class: its notifications and its key decoding.         *)

NoEvent == [defined |-> FALSE, name |-> "none", code |-> "none",
            defaultPrevented |-> FALSE]

\* Each emit* builds a notification, hands it to the engine's listeners and
\* returns it; listenerPrevents is whether a listener marked it handled.
emitChangeEvent ==
  [defined |-> TRUE, name |-> "change", code |-> "none",
   defaultPrevented |-> FALSE]

emitMoveEvent(code, listenerPrevents) ==
  [defined |-> TRUE, name |-> "move", code |-> code,
   defaultPrevented |-> listenerPrevents]

emitEnterEvent(listenerPrevents) ==
  [defined |-> TRUE, name |-> "enter", code |-> "none",
   defaultPrevented |-> listenerPrevents]

emitEscEvent(listenerPrevents) ==
  [defined |-> TRUE, name |-> "esc", code |-> "none",
   defaultPrevented |-> listenerPrevents]

getCode(e) == e.code

\* Trace entries: a notification handed to the engine, a call made on a
\* collaborator, an assignment to a property of the element.
Emitted(event) == <<"emit", event.name, event.code>>
Called(name) == <<"call", name, "none">>
Assigned(name) == <<"set", name, "none">>

-----------------------------------------------------------------------------
(* Textarea's methods.                                                     *)

\* Off by the selection: splits at the selection start.
getBeforeCursorAtStart(e) == substring(e.value, 0, e.selectionStart)

getBeforeCursor(e) == substring(e.value, 0, e.selectionEnd)

getAfterCursor(e) == substring(e.value, e.selectionEnd, -1)

Effect(trace, prevented) == [trace |-> trace, prevented |-> prevented]

\* Emits only in the legacy browser.
onInputLegacyOnly(e) ==
  IF isIE9 THEN Effect(<<Emitted(emitChangeEvent)>>, FALSE) ELSE Effect(<<>>, FALSE)

onInput(e) == Effect(<<Emitted(emitChangeEvent)>>, FALSE)

\* Emits, but never looks at the notification's defaultPrevented flag.
onKeydownNoPrevent(e) ==
  LET code  == getCode(e)
      event == IF code = "UP" \/ code = "DOWN"
                 THEN emitMoveEvent(code, e.listenerPrevents)
               ELSE IF code = "ENTER" THEN emitEnterEvent(e.listenerPrevents)
               ELSE IF code = "ESC" THEN emitEscEvent(e.listenerPrevents)
               ELSE NoEvent
  IN Effect(IF event.defined THEN <<Emitted(event)>> ELSE <<>>, FALSE)

\* Suppresses the browser default of every keydown.
onKeydownAlwaysPrevent(e) ==
  LET code  == getCode(e)
      event == IF code = "UP" \/ code = "DOWN"
                 THEN emitMoveEvent(code, e.listenerPrevents)
               ELSE IF code = "ENTER" THEN emitEnterEvent(e.listenerPrevents)
               ELSE IF code = "ESC" THEN emitEscEvent(e.listenerPrevents)
               ELSE NoEvent
      emits == IF event.defined THEN <<Emitted(event)>> ELSE <<>>
  IN Effect(emits \o <<Called("preventDefault")>>, TRUE)

onKeydown(e) ==
  LET code  == getCode(e)
      event == IF code = "UP" \/ code = "DOWN"
                 THEN emitMoveEvent(code, e.listenerPrevents)
               ELSE IF code = "ENTER" THEN emitEnterEvent(e.listenerPrevents)
               ELSE IF code = "ESC" THEN emitEscEvent(e.listenerPrevents)
               ELSE NoEvent
      emits == IF event.defined THEN <<Emitted(event)>> ELSE <<>>
  IN IF event.defined /\ event.defaultPrevented
       THEN Effect(emits \o <<Called("preventDefault")>>, TRUE)
       ELSE Effect(emits, FALSE)

\* Compensates in every browser, not only in IE 9.
onKeyupAnyBrowser(e) ==
  IF getCode(e) = "BS"
    THEN Effect(<<Emitted(emitChangeEvent)>>, FALSE)
    ELSE Effect(<<>>, FALSE)

onKeyup(e) ==
  LET code == getCode(e)
  IN IF code = "BS" /\ isIE9
       THEN Effect(<<Emitted(emitChangeEvent)>>, FALSE)
       ELSE Effect(<<>>, FALSE)

\* Forgets the keyup listener.
startListeningNoKeyup(ls) ==
  addEventListener(addEventListener(ls, "input", "onInput"), "keydown", "onKeydown")

startListening(ls) ==
  addEventListener(
    addEventListener(
      addEventListener(ls, "input", "onInput"),
      "keydown", "onKeydown"),
    "keyup", "onKeyup")

\* Leaves the keyup listener on the element.
stopListeningNoKeyup(ls) ==
  removeEventListener(removeEventListener(ls, "input", "onInput"), "keydown", "onKeydown")

\* Leaves the input listener on the element.
stopListeningKeysOnly(ls) ==
  removeEventListener(removeEventListener(ls, "keydown", "onKeydown"), "keyup", "onKeyup")

stopListening(ls) ==
  removeEventListener(
    removeEventListener(
      removeEventListener(ls, "input", "onInput"),
      "keydown", "onKeydown"),
    "keyup", "onKeyup")

\* Takes every answer of replace for a pair.
isArrayAlways(replace) == TRUE

isArray(replace) == replace.isArray

\* Places the caret first and assigns the value after it.
assignReplaceCaretFirst(e, replace) ==
  LET n == Len(replace.p)
  IN setValue(setSelectionStart(setSelectionEnd(e, n), n), replace.p \o replace.s)

\* Assigns the value and leaves the caret where that puts it.
assignReplaceValueOnly(e, replace) == setValue(e, replace.p \o replace.s)

\* this.el.value = replace[0] + replace[1];
\* this.el.selectionStart = this.el.selectionEnd = replace[0].length;
assignReplace(e, replace) ==
  LET n == Len(replace.p)
  IN setSelectionStart(setSelectionEnd(setValue(e, replace.p \o replace.s), n), n)

\* Focuses the element only when a replacement was applied.
applySearchResultFocusIfApplied(e, replace) ==
  IF isArray(replace)
    THEN [el    |-> focus(assignReplace(e, replace)),
          args  |-> <<getBeforeCursor(e), getAfterCursor(e)>>,
          trace |-> <<Called("replace"), Assigned("value"),
                      Assigned("selectionEnd"), Assigned("selectionStart"),
                      Called("focus")>>]
    ELSE [el    |-> e,
          args  |-> <<getBeforeCursor(e), getAfterCursor(e)>>,
          trace |-> <<Called("replace")>>]

\* Splits the text for replace only after the element was assigned.
applySearchResultSplitsLate(e, replace) ==
  IF isArray(replace)
    THEN [el    |-> focus(assignReplace(e, replace)),
          args  |-> <<getBeforeCursor(assignReplace(e, replace)),
                      getAfterCursor(assignReplace(e, replace))>>,
          trace |-> <<Assigned("value"), Assigned("selectionEnd"),
                      Assigned("selectionStart"), Called("replace"),
                      Called("focus")>>]
    ELSE [el    |-> focus(e),
          args  |-> <<getBeforeCursor(e), getAfterCursor(e)>>,
          trace |-> <<Called("replace"), Called("focus")>>]

\* replace is what searchResult.replace(before, after) answered.
applySearchResult(e, replace) ==
  IF isArray(replace)
    THEN [el    |-> focus(assignReplace(e, replace)),
          args  |-> <<getBeforeCursor(e), getAfterCursor(e)>>,
          trace |-> <<Called("replace"), Assigned("value"),
                      Assigned("selectionEnd"), Assigned("selectionStart"),
                      Called("focus")>>]
    ELSE [el    |-> focus(e),
          args  |-> <<getBeforeCursor(e), getAfterCursor(e)>>,
          trace |-> <<Called("replace"), Called("focus")>>]

\* getElScroll(): { top: this.el.scrollTop, left: this.el.scrollLeft }.
getElScroll(g) == [top |-> g.scrollTop, left |-> g.scrollLeft]

\* getCursorPosition(): the caret's coordinates inside the element, as
\* textarea-caret answers them for (el, el.selectionEnd).
getCursorPosition(g) == g.caret

\* What getCursorOffset answers: undefined, or a record with top, lineHeight
\* and left or right (hasLeft, hasRight say which keys the record has).
Undefined ==
  [defined |-> FALSE, top |-> 0, lineHeight |-> 0,
   hasLeft |-> FALSE, left |-> 0, hasRight |-> FALSE, right |-> 0]

WithLeft(top, left, lineHeight) ==
  [defined |-> TRUE, top |-> top, lineHeight |-> lineHeight,
   hasLeft |-> TRUE, left |-> left, hasRight |-> FALSE, right |-> 0]

WithRight(top, right, lineHeight) ==
  [defined |-> TRUE, top |-> top, lineHeight |-> lineHeight,
   hasLeft |-> FALSE, left |-> 0, hasRight |-> TRUE, right |-> right]

\* Adds the line height to left as well as to top.
getCursorOffsetLineHeightOnLeft(g) ==
  LET elOffset       == g.elOffset
      elScroll       == getElScroll(g)
      cursorPosition == getCursorPosition(g)
      lineHeight     == g.lineHeight
      top  == elOffset.top - elScroll.top + cursorPosition.top + lineHeight
      left == elOffset.left - elScroll.left + cursorPosition.left + lineHeight
  IN IF g.dir # "rtl" THEN WithLeft(top, left, lineHeight)
     ELSE IF g.documentElement
       THEN WithRight(top, g.clientWidth - left, lineHeight)
     ELSE Undefined

\* Answers left when the document root is missing, instead of nothing.
getCursorOffsetLeftWithoutRoot(g) ==
  LET elOffset       == g.elOffset
      elScroll       == getElScroll(g)
      cursorPosition == getCursorPosition(g)
      lineHeight     == g.lineHeight
      top  == elOffset.top - elScroll.top + cursorPosition.top + lineHeight
      left == elOffset.left - elScroll.left + cursorPosition.left
  IN IF g.dir = "rtl" /\ g.documentElement
       THEN WithRight(top, g.clientWidth - left, lineHeight)
       ELSE WithLeft(top, left, lineHeight)

\* g is what the page answers at the time of the call: the element's offset
\* (calculateElementOffset), its scroll position and dir, the caret's
\* coordinates, the line height, and the document root.
getCursorOffset(g) ==
  LET elOffset       == g.elOffset
      elScroll       == getElScroll(g)
      cursorPosition == getCursorPosition(g)
      lineHeight     == g.lineHeight
      top  == elOffset.top - elScroll.top + cursorPosition.top + lineHeight
      left == elOffset.left - elScroll.left + cursorPosition.left
  IN IF g.dir # "rtl" THEN WithLeft(top, left, lineHeight)
     ELSE IF g.documentElement
       THEN WithRight(top, g.clientWidth - left, lineHeight)
     ELSE Undefined

-----------------------------------------------------------------------------
(* Native event dispatch: the element calls, in order, every listener      *)
(* registered for the event's type.                                        *)

invoke(handler, e) ==
  CASE handler = "onInput"   -> onInput(e)
    [] handler = "onKeydown" -> onKeydown(e)
    [] handler = "onKeyup"   -> onKeyup(e)
    [] OTHER                 -> Effect(<<>>, FALSE)

RECURSIVE dispatchFrom(_, _, _)
dispatchFrom(ls, i, e) ==
  IF i > Len(ls) THEN Effect(<<>>, FALSE)
  ELSE LET rest == dispatchFrom(ls, i + 1, e)
           here == IF ls[i].type = e.type
                     THEN invoke(ls[i].handler, e)
                     ELSE Effect(<<>>, FALSE)
       IN Effect(here.trace \o rest.trace, here.prevented \/ rest.prevented)

dispatchEvent(ls, e) == dispatchFrom(ls, 1, e)

NativeEvent(type, code, listenerPrevents) ==
  [type |-> type, code |-> code, listenerPrevents |-> listenerPrevents]

-----------------------------------------------------------------------------
(* The state machine.                                                      *)

NoReplace == [isArray |-> FALSE, p |-> <<>>, s |-> <<>>]

ReplaceResults ==
  {NoReplace} \cup {[isArray |-> TRUE, p |-> p, s |-> s] : p \in StrsUpTo(MaxPart), s \in StrsUpTo(MaxPart)}

Point(top, left) == [top |-> top, left |-> left]

\* The page's answers a getCursorOffset call may meet.
Geometries ==
  {[elOffset |-> o, scrollTop |-> sc.top, scrollLeft |-> sc.left, caret |-> c,
    lineHeight |-> h, dir |-> d, documentElement |-> root, clientWidth |-> 1000] :
     o \in {Point(100, 200)},
     sc \in {Point(0, 0), Point(30, 50)},
     c \in {Point(7, 4)},
     h \in {16},
     d \in {"", "ltr", "rtl"},
     root \in BOOLEAN}

NoGeometry ==
  [elOffset |-> Point(0, 0), scrollTop |-> 0, scrollLeft |-> 0,
   caret |-> Point(0, 0), lineHeight |-> 0, dir |-> "", documentElement |-> FALSE,
   clientWidth |-> 0]

Call(op) ==
  [op |-> op, e |-> NativeEvent("none", "none", FALSE), replace |-> NoReplace,
   trace |-> <<>>, prevented |-> FALSE, threw |-> FALSE,
   result |-> <<>>, geometry |-> NoGeometry, offset |-> Undefined]

\* A TypeError: the call reads a property of this.el, which is undefined.
Threw(op) == [Call(op) EXCEPT !.threw = TRUE]

\* Listener lists the page may have put on the element on its own.
PageListeners == {<<>>, <<Listener("input", "page")>>}

Elements ==
  {[value |-> v, selectionStart |-> a, selectionEnd |-> b, focused |-> f,
    listeners |-> ls] :
     v \in StrsUpTo(MaxLen), a \in 0..MaxLen, b \in 0..MaxLen, f \in BOOLEAN,
     ls \in PageListeners}

IEVersions == {0, 9, 11}

Init ==
  /\ el \in {e \in Elements :
               e.selectionStart <= e.selectionEnd /\ e.selectionEnd <= Len(e.value)}
  /\ constructed = FALSE
  /\ hasEl = FALSE
  /\ isIE9 = FALSE
  /\ ieVersion \in IEVersions
  /\ last = Call("none")

Constructor ==
  /\ ~constructed
  /\ constructed' = TRUE
  /\ hasEl' = TRUE
  /\ isIE9' = (ieVersion = 9)
  /\ el' = [el EXCEPT !.listeners = startListening(el.listeners)]
  /\ last' = Call("constructor")
  /\ UNCHANGED ieVersion

\* Also empties the element's text on teardown.
FinalizeClearingValue ==
  /\ constructed
  /\ IF hasEl
       THEN /\ el' = setValue([el EXCEPT !.listeners = stopListening(el.listeners)], <<>>)
            /\ hasEl' = FALSE
            /\ last' = Call("finalize")
       ELSE /\ last' = Threw("finalize")
            /\ UNCHANGED <<el, hasEl>>
  /\ UNCHANGED <<constructed, isIE9, ieVersion>>

\* Also drops the isIE9 property on teardown.
FinalizeDroppingFlag ==
  /\ constructed
  /\ IF hasEl
       THEN /\ el' = [el EXCEPT !.listeners = stopListening(el.listeners)]
            /\ hasEl' = FALSE
            /\ last' = Call("finalize")
       ELSE /\ last' = Threw("finalize")
            /\ UNCHANGED <<el, hasEl>>
  /\ isIE9' = FALSE
  /\ UNCHANGED <<constructed, ieVersion>>

\* super.finalize() only returns this; stopListening() then reads
\* this.el, which a former finalize() has deleted.
Finalize ==
  /\ constructed
  /\ IF hasEl
       THEN /\ el' = [el EXCEPT !.listeners = stopListening(el.listeners)]
            /\ hasEl' = FALSE
            /\ last' = Call("finalize")
       ELSE /\ last' = Threw("finalize")
            /\ UNCHANGED <<el, hasEl>>
  /\ UNCHANGED <<constructed, isIE9, ieVersion>>

\* On a finalized adapter getBeforeCursor() raises before replace is called.
ApplySearchResult ==
  /\ constructed
  /\ IF hasEl
       THEN \E replace \in ReplaceResults :
              LET r == applySearchResult(el, replace)
              IN /\ el' = r.el
                 /\ last' = [Call("applySearchResult") EXCEPT
                               !.replace = replace,
                               !.trace = r.trace]
       ELSE /\ last' = Threw("applySearchResult")
            /\ UNCHANGED el
  /\ UNCHANGED <<constructed, hasEl, isIE9, ieVersion>>

GetBeforeCursor ==
  /\ constructed
  /\ last' = IF hasEl
               THEN [Call("getBeforeCursor") EXCEPT !.result = getBeforeCursor(el)]
               ELSE Threw("getBeforeCursor")
  /\ UNCHANGED <<el, constructed, hasEl, isIE9, ieVersion>>

GetAfterCursor ==
  /\ constructed
  /\ last' = IF hasEl
               THEN [Call("getAfterCursor") EXCEPT !.result = getAfterCursor(el)]
               ELSE Threw("getAfterCursor")
  /\ UNCHANGED <<el, constructed, hasEl, isIE9, ieVersion>>

\* Reads the element and the page, assigns nothing.
GetCursorOffset ==
  /\ constructed
  /\ IF hasEl
       THEN \E g \in Geometries :
              last' = [Call("getCursorOffset") EXCEPT
                         !.geometry = g, !.offset = getCursorOffset(g)]
       ELSE last' = Threw("getCursorOffset")
  /\ UNCHANGED <<el, constructed, hasEl, isIE9, ieVersion>>

\* The record of a native event e delivered to the element's listeners.
Dispatch(e) ==
  LET eff == dispatchEvent(el.listeners, e)
  IN [Call(e.type) EXCEPT !.e = e, !.trace = eff.trace, !.prevented = eff.prevented]

DispatchInput ==
  /\ last' = Dispatch(NativeEvent("input", "none", FALSE))
  /\ UNCHANGED <<el, constructed, hasEl, isIE9, ieVersion>>

DispatchKeydown ==
  /\ \E code \in Codes, listenerPrevents \in BOOLEAN :
       last' = Dispatch(NativeEvent("keydown", code, listenerPrevents))
  /\ UNCHANGED <<el, constructed, hasEl, isIE9, ieVersion>>

DispatchKeyup ==
  /\ \E code \in Codes : last' = Dispatch(NativeEvent("keyup", code, FALSE))
  /\ UNCHANGED <<el, constructed, hasEl, isIE9, ieVersion>>

\* The user clicks elsewhere (a dropdown item): the element loses focus.
Blur ==
  /\ el.focused
  /\ el' = [el EXCEPT !.focused = FALSE]
  /\ last' = Call("blur")
  /\ UNCHANGED <<constructed, hasEl, isIE9, ieVersion>>

Next ==
  \/ Constructor
  \/ Finalize
  \/ ApplySearchResult
  \/ GetBeforeCursor
  \/ GetAfterCursor
  \/ GetCursorOffset
  \/ DispatchInput
  \/ DispatchKeydown
  \/ DispatchKeyup
  \/ Blur

Spec == Init /\ [][Next]_vars

-----------------------------------------------------------------------------
(* Properties.                                                             *)

Live == constructed /\ hasEl
Finalized == constructed /\ ~hasEl
Applied == last.op = "applySearchResult" /\ ~last.threw
NativeEvents == {"input", "keydown", "keyup"}
ChangeOnly == <<Emitted(emitChangeEvent)>>

\* C1: applySearchResult with a pair (p, s) leaves the element with value
\* p + s and the caret at Len(p): selectionStart = selectionEnd = Len(p),
\* whatever the element's value and selection were.
C1_TupleSetsValueAndCaret ==
  (Applied /\ last.replace.isArray) =>
    /\ el.value = last.replace.p \o last.replace.s
    /\ el.selectionStart = Len(last.replace.p)
    /\ el.selectionEnd = Len(last.replace.p)

C1_Witness ==
  /\ Applied /\ last.replace.isArray
  /\ last.replace.p # <<>> /\ last.replace.s # <<>>
  /\ el.selectionEnd = 1 /\ Len(el.value) = 2

\* C2: applySearchResult on a live adapter with a declined replacement (not
\* a pair) raises nothing and leaves the element's value, selectionStart and
\* selectionEnd as they were.
C2_DeclinedLeavesElement ==
  [][(Live /\ last'.op = "applySearchResult" /\ ~last'.replace.isArray) =>
       /\ ~last'.threw
       /\ el'.value = el.value
       /\ el'.selectionStart = el.selectionStart
       /\ el'.selectionEnd = el.selectionEnd]_vars

C2_Witness ==
  /\ Applied /\ ~last.replace.isArray
  /\ el.value # <<>> /\ el.selectionStart < el.selectionEnd

\* C3: on a live adapter getBeforeCursor() + getAfterCursor() is the
\* element's value, getBeforeCursor() is its first selectionEnd characters
\* (getAfterCursor() the rest), and neither depends on selectionStart.
C3_SplitAtSelectionEnd ==
  Live =>
    /\ getBeforeCursor(el) \o getAfterCursor(el) = el.value
    /\ getBeforeCursor(el) = SubSeq(el.value, 1, el.selectionEnd)
    /\ \A a \in 0..Len(el.value) :
         /\ getBeforeCursor([el EXCEPT !.selectionStart = a]) = getBeforeCursor(el)
         /\ getAfterCursor([el EXCEPT !.selectionStart = a]) = getAfterCursor(el)
    /\ (last.op = "getBeforeCursor" =>
          /\ ~last.threw
          /\ last.result = SubSeq(el.value, 1, el.selectionEnd))
    /\ (last.op = "getAfterCursor" =>
          /\ ~last.threw
          /\ last.result = SubSeq(el.value, el.selectionEnd + 1, Len(el.value)))

C3_Witness ==
  /\ Live /\ last.op = "getBeforeCursor"
  /\ el.selectionStart < el.selectionEnd /\ el.selectionEnd < Len(el.value)
  /\ last.result = <<el.value[1]>>

\* C4: once finalize() has run, a native event on the element (input,
\* keydown or keyup with any key) produces no notification and suppresses
\* no browser default.
C4_NoNotificationAfterFinalize ==
  (Finalized /\ last.op \in NativeEvents) =>
    /\ last.trace = <<>>
    /\ ~last.prevented

C4_Witness ==
  /\ Finalized /\ last.op = "keydown"
  /\ last.e.code = "ENTER" /\ last.e.listenerPrevents

\* C5: a finalize() call on an adapter already finalized raises no error
\* and detaches nothing.
C5_SecondFinalizeDoesNotCrash ==
  [][(Finalized /\ last'.op = "finalize") =>
       /\ ~last'.threw
       /\ el'.listeners = el.listeners]_vars

\* C6: a keydown decoded as UP, DOWN, ENTER or ESC on a live adapter emits
\* the matching notification (move with that direction, enter, esc) first,
\* and when a listener marked the notification handled, preventDefault is
\* then called on the native event.
C6_NotificationFor(code) ==
  CASE code \in {"UP", "DOWN"} -> <<"emit", "move", code>>
    [] code = "ENTER"          -> <<"emit", "enter", "none">>
    [] code = "ESC"            -> <<"emit", "esc", "none">>

C6_KeydownEmitsAndPrevents ==
  (Live /\ last.op = "keydown" /\ last.e.code \in {"UP", "DOWN", "ENTER", "ESC"}) =>
    /\ Len(last.trace) >= 1
    /\ last.trace[1] = C6_NotificationFor(last.e.code)
    /\ (last.e.listenerPrevents =>
          /\ last.prevented
          /\ last.trace = <<C6_NotificationFor(last.e.code), Called("preventDefault")>>)

C6_Witness ==
  /\ Live /\ last.op = "keydown" /\ last.e.code = "DOWN"
  /\ last.e.listenerPrevents /\ last.prevented

\* C7: on a live adapter a native input event produces exactly one change
\* notification and nothing else, whatever isIE9 and the element's text.
C7_InputEmitsOneChange ==
  (Live /\ last.op = "input") => last.trace = ChangeOnly

C7_Witness ==
  Live /\ last.op = "input" /\ ~isIE9 /\ el.value # <<>> /\ last.trace = ChangeOnly

\* C8: on a live adapter a keyup emits exactly one change notification when
\* isIE9 is set and the key decodes to BS, and emits nothing otherwise.
C8_KeyupChangeIffLegacyBackspace ==
  (Live /\ last.op = "keyup") =>
    last.trace = IF isIE9 /\ last.e.code = "BS" THEN ChangeOnly ELSE <<>>

C8_Witness ==
  Live /\ last.op = "keyup" /\ isIE9 /\ last.e.code = "BS" /\ last.trace = ChangeOnly

\* C9: after applySearchResult the element has the focus, whether the
\* replacement was applied or declined, and focus() is the last thing the
\* call did: every assignment to the element comes before it.
C9_FocusRestoredLast ==
  Applied =>
    /\ el.focused
    /\ last.trace # <<>>
    /\ last.trace[Len(last.trace)] = Called("focus")
    /\ \A i \in 1..(Len(last.trace) - 1) : last.trace[i] # Called("focus")

C9_Witness ==
  Applied /\ ~last.replace.isArray /\ el.focused /\ Len(last.trace) = 2

\* C10: construction appends exactly three listeners to the element's list
\* (input, keydown, keyup, one handler each) and changes nothing else of the
\* element; in every state each handler of the adapter is on the element at
\* most once, and exactly once while the adapter is live.
C10_Registered(ls, handler) ==
  Cardinality({i \in 1..Len(ls) : ls[i].handler = handler})

C10_ThreeListeners ==
  <<Listener("input", "onInput"), Listener("keydown", "onKeydown"),
    Listener("keyup", "onKeyup")>>

C10_ConstructionRegistersThree ==
  /\ [](\A i \in 1..Len(CALLBACK_METHODS) :
         /\ C10_Registered(el.listeners, CALLBACK_METHODS[i]) <= 1
         /\ (Live => C10_Registered(el.listeners, CALLBACK_METHODS[i]) = 1))
  /\ [][(last'.op = "constructor") =>
          el' = [el EXCEPT !.listeners = el.listeners \o C10_ThreeListeners]]_vars

C10_Witness ==
  last.op = "constructor" /\ Len(el.listeners) = 4

\* C11: finalize() on a live adapter raises nothing, takes the adapter's
\* three listeners (input, keydown, keyup) off the element and deletes the
\* adapter's el; it leaves the element's value, selection, focus and the
\* page's own listeners as they were.  No state is a partial teardown: an
\* adapter holds el with all three handlers registered, or holds no el with
\* none of them registered.
C11_Own(l) == \E i \in 1..Len(CALLBACK_METHODS) : l.handler = CALLBACK_METHODS[i]

C11_OwnCount(ls) == Cardinality({i \in 1..Len(ls) : C11_Own(ls[i])})

C11_FinalizeRemovesAll ==
  /\ [](constructed =>
         C11_OwnCount(el.listeners) = IF hasEl THEN Len(CALLBACK_METHODS) ELSE 0)
  /\ [][(Live /\ last'.op = "finalize") =>
          /\ ~last'.threw
          /\ ~hasEl'
          /\ el' = [el EXCEPT !.listeners =
                       SelectSeq(el.listeners, LAMBDA l : ~C11_Own(l))]]_vars

C11_Witness ==
  /\ Finalized /\ last.op = "finalize" /\ ~last.threw
  /\ el.listeners = <<Listener("input", "page")>>
  /\ el.value # <<>> /\ el.selectionStart < el.selectionEnd

\* C12: getCursorOffset answers top = elOffset.top - scrollTop + caret.top
\* + lineHeight; for an element whose dir is not rtl, left = elOffset.left
\* - scrollLeft + caret.left (no line height) and no right; for an rtl
\* element with a document root, right = clientWidth - left and no left;
\* lineHeight is the measured line height in both.
C12_Top(g) == g.elOffset.top - g.scrollTop + g.caret.top + g.lineHeight

C12_Left(g) == g.elOffset.left - g.scrollLeft + g.caret.left

C12_CursorOffsetArithmetic ==
  (last.op = "getCursorOffset" /\ ~last.threw) =>
    LET g == last.geometry
        r == last.offset
    IN /\ (g.dir # "rtl" =>
              /\ r.defined /\ r.top = C12_Top(g) /\ r.lineHeight = g.lineHeight
              /\ r.hasLeft /\ r.left = C12_Left(g) /\ ~r.hasRight)
       /\ ((g.dir = "rtl" /\ g.documentElement) =>
              /\ r.defined /\ r.top = C12_Top(g) /\ r.lineHeight = g.lineHeight
              /\ r.hasRight /\ r.right = g.clientWidth - C12_Left(g) /\ ~r.hasLeft)

C12_Witness ==
  /\ last.op = "getCursorOffset" /\ ~last.threw
  /\ last.geometry.dir = "rtl" /\ last.geometry.documentElement
  /\ last.geometry.scrollLeft = 50
  /\ last.offset.top = 93 /\ last.offset.right = 846

\* C13: getCursorOffset on a live adapter answers undefined exactly when the
\* element is rtl and there is no document root, and otherwise a record with
\* top, lineHeight and exactly one of left and right; and no call made on a
\* live adapter raises.
C13_AbsentOnlyForRtlWithoutRoot ==
  /\ []((last.op = "getCursorOffset" /\ ~last.threw) =>
          /\ ~last.offset.defined <=>
                (last.geometry.dir = "rtl" /\ ~last.geometry.documentElement)
          /\ last.offset.defined =>
                /\ last.offset.hasLeft # last.offset.hasRight
                /\ last.offset.lineHeight = last.geometry.lineHeight
                /\ last.offset.top = C12_Top(last.geometry))
  /\ [][Live => ~last'.threw]_vars

C13_Witness ==
  /\ Live /\ last.op = "getCursorOffset" /\ ~last.threw
  /\ last.geometry.dir = "rtl" /\ ~last.geometry.documentElement
  /\ ~last.offset.defined

\* C14: on a live adapter a keydown decoded as none of UP, DOWN, ENTER, ESC
\* emits nothing and calls no preventDefault; any keydown emits at most one
\* notification, and preventDefault is called only when one was emitted and
\* a listener marked it handled.
C14_Emits(trace) == {i \in 1..Len(trace) : trace[i][1] = "emit"}

C14_OtherKeysEmitNothing ==
  (Live /\ last.op = "keydown") =>
    /\ (last.e.code \notin {"UP", "DOWN", "ENTER", "ESC"} =>
          last.trace = <<>> /\ ~last.prevented)
    /\ Cardinality(C14_Emits(last.trace)) <= 1
    /\ ((last.prevented \/ \E i \in 1..Len(last.trace) :
                              last.trace[i] = Called("preventDefault")) =>
          /\ Cardinality(C14_Emits(last.trace)) = 1
          /\ last.e.listenerPrevents)

C14_Witness ==
  /\ Live /\ last.op = "keydown" /\ last.e.code = "BS"
  /\ last.e.listenerPrevents /\ last.trace = <<>>

\* C15: right after applySearchResult applied a pair (p, s),
\* getBeforeCursor() is p and getAfterCursor() is s.
C15_RoundTrip ==
  (Applied /\ last.replace.isArray) =>
    /\ getBeforeCursor(el) = last.replace.p
    /\ getAfterCursor(el) = last.replace.s

C15_Witness ==
  /\ Applied /\ last.replace.isArray
  /\ last.replace.p = <<"a">> /\ last.replace.s = <<"b">>
  /\ getBeforeCursor(el) = <<"a">>

\* C16: applySearchResult on a live adapter calls replace exactly once, as
\* the first thing it does, with the element's text before and after the
\* selection end as they were when the call began, and emits no
\* notification.
C16_Replaces(trace) == {i \in 1..Len(trace) : trace[i] = Called("replace")}

C16_ReplaceCalledOnceWithSplit ==
  [][(Live /\ last'.op = "applySearchResult") =>
       /\ applySearchResult(el, last'.replace).args =
            <<SubSeq(el.value, 1, el.selectionEnd),
              SubSeq(el.value, el.selectionEnd + 1, Len(el.value))>>
       /\ C16_Replaces(last'.trace) = {1}
       /\ C14_Emits(last'.trace) = {}]_vars

C16_Witness ==
  /\ Applied /\ last.replace.isArray /\ last.replace.p = <<"b">>
  /\ last.trace[1] = Called("replace") /\ Len(last.trace) = 5

\* C17: only applySearchResult with a pair changes the element's value,
\* selectionStart or selectionEnd: the event handlers, the getters and
\* finalize leave them as they were; and getCursorOffset changes nothing of
\* the adapter or the element.
C17_TextOf(e) == <<e.value, e.selectionStart, e.selectionEnd>>

C17_OnlyApplyChangesText ==
  [][/\ (C17_TextOf(el') # C17_TextOf(el) =>
          Live /\ last'.op = "applySearchResult" /\ last'.replace.isArray)
     /\ (last'.op \in NativeEvents \cup
                       {"getBeforeCursor", "getAfterCursor", "getCursorOffset", "finalize"} =>
          C17_TextOf(el') = C17_TextOf(el))
     /\ (last'.op = "getCursorOffset" =>
          UNCHANGED <<el, constructed, hasEl, isIE9>>)]_vars

C17_Witness ==
  /\ Live /\ last.op = "getCursorOffset" /\ last.offset.defined
  /\ el.value # <<>> /\ el.selectionStart < el.selectionEnd

\* C18: isIE9 is set by the constructor, to whether getIEVersion() is 9, and
\* no later call or event changes it.
C18_FlagFixedAtConstruction ==
  [][/\ (constructed => isIE9' = isIE9)
     /\ ((~constructed /\ constructed') => isIE9' = (ieVersion = 9))]_vars

C18_Witness ==
  Finalized /\ isIE9 /\ last.op = "keyup" /\ last.e.code = "BS"

====
